---- MODULE Spec2Model ----
(***************************************************************************)
(* A model of the document reader: the audio service (AudioService.play /  *)
(* stop over the Web Audio buffer source and the platform speech queue),   *)
(* the PCM decoder, the citation scan of ChatMessage.renderContent, the    *)
(* format classifier and the extractors of the document service, the batch *)
(* upload of FileUpload.startAnalysis and the scroll effect of             *)
(* DocumentViewer.                                                         *)
(***************************************************************************)
EXTENDS Integers, Sequences, FiniteSets, TLC

\* ------------------------------------------------------------------ bounds
\* Number of play() calls issued in one behaviour of the audio service.
MaxCalls == 2
\* Longest base64 payload, in symbols.
MaxSymbols == 6
\* Most bracket tokens in one answer string.
MaxTokens == 2
\* Most units (pages, sheets, slides) in one file.
MaxUnits == 2
\* Most files selected for one upload.
MaxFiles == 2
\* Largest page number a citation button carries.
MaxPage == 6
\* Largest value Date.now() takes as the id of a session or a message.
MaxClock == 4

\* ------------------------------------------------------------- audio state
VARIABLES
  audioCtxAvail,   \* whether window.AudioContext can be constructed
  audioContext,    \* this.audioContext: "null", or the context's state
  currentSource,   \* this.currentSource: 0 (null) or the owning call's id
  nextCall,        \* number of play() calls issued so far
  callOpts,        \* per call: the options it was given
  callPc,          \* per call: "idle", "awaitResume", "returned", "rejected"
  callPath,        \* per call: output path taken
  srcState,        \* per call: its AudioBufferSourceNode
  speechQueue,     \* window.speechSynthesis: utterances, head is speaking
  uttState,        \* per call: its SpeechSynthesisUtterance
  cbCount,         \* per call: invocations of its onEnded
  cbLate,          \* per call: invocations of onEnded after a later play()
  stopCalled       \* whether a caller other than play() has called stop()

audioVars == <<audioCtxAvail, audioContext, currentSource, nextCall, callOpts,
               callPc, callPath, srcState, speechQueue, uttState, cbCount, cbLate,
               stopCalled>>

\* ----------------------------------------------------------- decoder state
VARIABLES
  decInput,        \* the base64 string, as its 6-bit symbol values (padding implied)
  decBytes,        \* the Uint8Array decodeBase64 returns
  decSamples,      \* channel 0 of the AudioBuffer decodeAudioData returns
  decPc            \* "input", "bytes", "buffer", "atobThrew", "decodeThrew"

decodeVars == <<decInput, decBytes, decSamples, decPc>>

\* ------------------------------------------------------ citation scan state
VARIABLES
  citeText,        \* message.content, a sequence of characters
  citeParts,       \* what renderContent returned
  citePc           \* "input", "rendered"

citeVars == <<citeText, citeParts, citePc>>

\* -------------------------------------------------------- extraction state
VARIABLES
  libs,            \* the decoder libraries present on window
  exFile,          \* the File handed to extractTextFromDocument
  exKind,          \* fileType, once getFileType has run ("none" before)
  exDoc,           \* the DocumentData returned (NoDoc before, and on failure)
  exError,         \* the value thrown (NoError when none)
  exKeys,          \* Object.keys(zip.files) as extractFromPPTX found them
  exRead,          \* a read of the file's bytes was attempted
  exPc             \* "selected", "classified", "done", "failed"

extractVars == <<libs, exFile, exKind, exDoc, exError, exKeys, exRead, exPc>>

\* ------------------------------------------------------------ upload state
VARIABLES
  appState,          \* AppState.UPLOAD or AppState.CHAT
  sessions,          \* App's sessions, newest first
  currentSessionId,  \* 0 for null
  selectedFiles,     \* FileUpload's list
  isProcessing,
  error,             \* FileUpload's error text, "null" when none
  batch,             \* the selectedFiles startAnalysis iterates over
  results,           \* the local results array of startAnalysis
  awaiting,          \* index in batch of the file being extracted, 0 when none
  storage,           \* localStorage 'read_pdf_sessions': the sessions as written
  pending,           \* the setSessions(parsed) of the mount effect, not yet rendered
  clock              \* the last value Date.now() gave as an id

fileUploadVars == <<selectedFiles, isProcessing, error, batch, results, awaiting>>
uploadVars ==
  <<appState, sessions, currentSessionId, selectedFiles, isProcessing, error, batch,
    results, awaiting, storage, pending, clock>>

\* -------------------------------------------------------------- chat state
VARIABLES
  isLoading,         \* App's isLoading
  request,           \* the handleSendMessage waiting on generateAnswer, or NoRequest
  callMsg,           \* per play() call: the session and message its onEnded closes over
  synth              \* handlePlayAudio calls waiting on generateSpeech

chatVars == <<isLoading, request, callMsg, synth>>

\* ------------------------------------------------------------ viewer state
VARIABLES
  documentData,      \* the DocumentViewer's document
  scrollToPage,      \* NoPage for null
  content,           \* the view rendered: "null" (nothing or the loader) or a view kind
  loading,           \* loadContent is waiting on the file or a converter
  navigation         \* the navigation the last page click caused

viewerVars == <<documentData, scrollToPage, content, loading, navigation>>

vars == <<audioVars, decodeVars, citeVars, extractVars, uploadVars, viewerVars, chatVars>>

\* what the actions of one component leave alone
nonAudioVars == <<decodeVars, citeVars, extractVars, uploadVars, viewerVars, chatVars>>
nonDecodeVars == <<audioVars, citeVars, extractVars, uploadVars, viewerVars, chatVars>>
nonCiteVars == <<audioVars, decodeVars, extractVars, uploadVars, viewerVars, chatVars>>
nonExtractVars == <<audioVars, decodeVars, citeVars, uploadVars, viewerVars, chatVars>>
nonUploadVars == <<audioVars, decodeVars, citeVars, extractVars, viewerVars, chatVars>>
nonViewerVars == <<audioVars, decodeVars, citeVars, extractVars, uploadVars, chatVars>>
\* what App, its chat and its playback buttons leave alone
nonAppVars == <<decodeVars, citeVars, extractVars, viewerVars>>
\* what an event of the audio service and the onEnded it invokes leave alone
nonPlaybackVars ==
  <<appState, currentSessionId, pending, clock, fileUploadVars, chatVars, nonAppVars>>

Calls == 1..MaxCalls

\* options of play(): base64Audio absent, decodable, or malformed; text truthy or not
Base64Kinds == {"none", "good", "bad"}
PlayOptions == [b64 : Base64Kinds, text : BOOLEAN]
NoOptions == [b64 |-> "none", text |-> FALSE]

\* The service and its platform, as one record the helpers transform.
AudioState ==
  [audioContext |-> audioContext, currentSource |-> currentSource,
   nextCall |-> nextCall, callOpts |-> callOpts, callPc |-> callPc,
   callPath |-> callPath, srcState |-> srcState, speechQueue |-> speechQueue,
   uttState |-> uttState, cbCount |-> cbCount, cbLate |-> cbLate]

SetAudioState(S) ==
  /\ audioContext' = S.audioContext
  /\ currentSource' = S.currentSource
  /\ nextCall' = S.nextCall
  /\ callOpts' = S.callOpts
  /\ callPc' = S.callPc
  /\ callPath' = S.callPath
  /\ srcState' = S.srcState
  /\ speechQueue' = S.speechQueue
  /\ uttState' = S.uttState
  /\ cbCount' = S.cbCount
  /\ cbLate' = S.cbLate

RECURSIVE CancelAll(_, _)
\* speechSynthesis.cancel(): every utterance leaves the queue; each gets its
\* error event (canceled / interrupted) dispatched later.
CancelAll(utt, q) ==
  IF q = <<>> THEN utt
  ELSE CancelAll([utt EXCEPT ![Head(q)] = "cancelled"], Tail(q))

\* onEnded of call c is invoked.
InvokeOnEnded(S, c) ==
  [S EXCEPT !.cbCount[c] = @ + 1,
            !.cbLate[c] = @ + (IF S.nextCall > c THEN 1 ELSE 0)]

\* stop() that stops the buffer source and leaves the speech queue alone
stop_SourceOnly(S) ==
  IF S.currentSource # 0
  THEN [S EXCEPT !.srcState[S.currentSource] = "stopped", !.currentSource = 0]
  ELSE S

\* AudioService.stop()
stop(S) ==
  LET S1 == IF S.currentSource # 0
            THEN [S EXCEPT !.srcState[S.currentSource] = "stopped",
                           !.currentSource = 0]
            ELSE S
  IN [S1 EXCEPT !.uttState = CancelAll(S1.uttState, S1.speechQueue),
                !.speechQueue = <<>>]

\* The tail of play(): speech fallback, or immediate completion.
SpeechFallback(S, c) ==
  IF S.callOpts[c].text
  THEN [S EXCEPT !.speechQueue = Append(@, c),
                 !.uttState[c] = "queued",
                 !.callPath[c] = "speech",
                 !.callPc[c] = "returned"]
  ELSE [InvokeOnEnded(S, c) EXCEPT !.callPath[c] = "immediate",
                                   !.callPc[c] = "returned"]

\* play() from decodeBase64 on, the context running: start the buffer source,
\* or catch the decoding error and fall through.
StartBufferSource(S, c) ==
  IF S.callOpts[c].b64 = "good"
  THEN [S EXCEPT !.currentSource = c,
                 !.srcState[c] = "playing",
                 !.callPath[c] = "pcm",
                 !.callPc[c] = "returned"]
  ELSE SpeechFallback(S, c)

\* play() up to its first suspension or its return.
play(S0, c, opts, ctxAvail, newCtxState) ==
  LET S1 == stop([S0 EXCEPT !.nextCall = c, !.callOpts[c] = opts])
  IN IF S1.audioContext = "null" /\ ~ctxAvail
     THEN [S1 EXCEPT !.callPc[c] = "rejected", !.callPath[c] = "threw"]
     ELSE LET S2 == IF S1.audioContext = "null"
                    THEN [S1 EXCEPT !.audioContext = newCtxState]
                    ELSE S1
          IN IF opts.b64 # "none"
             THEN IF S2.audioContext = "suspended"
                  THEN [S2 EXCEPT !.callPc[c] = "awaitResume"]
                  ELSE StartBufferSource(S2, c)
             ELSE SpeechFallback(S2, c)

RECURSIVE ResumeAll(_, _)
\* ctx.resume() settles: the pending promises resolve in order, and each
\* suspended play() continues in turn.
ResumeAll(S, c) ==
  IF c > MaxCalls THEN S
  ELSE ResumeAll(IF S.callPc[c] = "awaitResume" THEN StartBufferSource(S, c) ELSE S,
                 c + 1)

\* source.onended of call c's buffer source
onended(S, c) ==
  LET S1 == [S EXCEPT !.srcState[c] = "ended"]
  IN IF S1.currentSource = c
     THEN InvokeOnEnded([S1 EXCEPT !.currentSource = 0], c)
     ELSE S1

\* ----------------------------------------------------------- PCM decoder
\* 6-bit values of the base64 symbols the payloads are built from.
Symbols == {0, 8, 31, 63}
SampleDivisor == 32768

RECURSIVE atob(_)
\* atob over the symbol values: four symbols make three bytes, a final group
\* of three makes two, of two makes one.
atob(sx) ==
  IF Len(sx) = 0 THEN <<>>
  ELSE IF Len(sx) = 2
       THEN <<sx[1] * 4 + sx[2] \div 16>>
  ELSE IF Len(sx) = 3
       THEN <<sx[1] * 4 + sx[2] \div 16, (sx[2] % 16) * 16 + sx[3] \div 4>>
  ELSE <<sx[1] * 4 + sx[2] \div 16,
         (sx[2] % 16) * 16 + sx[3] \div 4,
         (sx[3] % 4) * 64 + sx[4]>> \o atob(SubSeq(sx, 5, Len(sx)))

\* A base64 string of 4k+1 symbols is malformed: atob throws.
atobThrows(sx) == Len(sx) % 4 = 1

\* decodeBase64: bytes[i] = binaryString.charCodeAt(i)
decodeBase64(sx) == LET binaryString == atob(sx)
                    IN [i \in 1..Len(binaryString) |-> binaryString[i] % 256]

\* The bytes read as unsigned 16-bit integers (a Uint16Array view).
Int16At_Unsigned(data, i) == data[2 * i - 1] + 256 * data[2 * i]

\* One element of new Int16Array(data.buffer): two bytes, low byte first,
\* two's complement.
Int16At(data, i) ==
  LET u == data[2 * i - 1] + 256 * data[2 * i]
  IN IF u >= 32768 THEN u - 65536 ELSE u

\* new Int16Array(buffer) throws on an odd byte length, and
\* ctx.createBuffer(1, 0, rate) throws on a length of zero frames.
decodeAudioDataThrows(data) == Len(data) % 2 = 1 \/ Len(data) \div 2 = 0

\* A sample is the fraction num / den.
SampleOf(v) == [num |-> v, den |-> SampleDivisor]

\* decodeAudioData with numChannels = 1: channelData[i] = dataInt16[i] / 32768.0
decodeAudioData(data) ==
  LET frameCount == Len(data) \div 2
  IN [i \in 1..frameCount |-> SampleOf(Int16At(data, i))]

RECURSIVE SeqsUpTo(_, _)
SeqsUpTo(S, n) ==
  IF n = 0 THEN {<<>>}
  ELSE LET shorter == SeqsUpTo(S, n - 1)
       IN shorter \cup {Append(q, x) : q \in {r \in shorter : Len(r) = n - 1}, x \in S}

DecodeIdle ==
  /\ decInput = <<>>
  /\ decBytes = <<>>
  /\ decSamples = <<>>
  /\ decPc = "off"

DecodeInit ==
  /\ decInput \in SeqsUpTo(Symbols, MaxSymbols)
  /\ decBytes = <<>>
  /\ decSamples = <<>>
  /\ decPc = "input"

DecodeBase64 ==
  /\ decPc = "input"
  /\ IF atobThrows(decInput)
     THEN decPc' = "atobThrew" /\ UNCHANGED decBytes
     ELSE decPc' = "bytes" /\ decBytes' = decodeBase64(decInput)
  /\ UNCHANGED <<decInput, decSamples, nonDecodeVars>>

DecodeAudioData ==
  /\ decPc = "bytes"
  /\ IF decodeAudioDataThrows(decBytes)
     THEN decPc' = "decodeThrew" /\ UNCHANGED decSamples
     ELSE decPc' = "buffer" /\ decSamples' = decodeAudioData(decBytes)
  /\ UNCHANGED <<decInput, decBytes, nonDecodeVars>>

DecodeNext ==
  \/ DecodeBase64
  \/ DecodeAudioData


\* --------------------------------------------------------- citation scan
\* Strings are sequences of one-character strings.
Digits == <<"0", "1", "2", "3", "4", "5", "6", "7", "8", "9">>
IsDigit(ch) == \E d \in 1..10 : Digits[d] = ch
DigitValue(ch) == (CHOOSE d \in 1..10 : Digits[d] = ch) - 1
\* \s
IsSpace(ch) == ch \in {" ", "\t", "\n"}

\* the pattern without its i flag
toLowerCase_CaseSensitive(ch) == ch

UpperCase == <<"A", "D", "E", "G", "H", "I", "L", "P", "S", "T">>
LowerCase == <<"a", "d", "e", "g", "h", "i", "l", "p", "s", "t">>
\* case folding of the i flag, on the letters of the three unit words
toLowerCase(ch) ==
  IF \E k \in 1..Len(UpperCase) : UpperCase[k] = ch
  THEN LowerCase[CHOOSE k \in 1..Len(UpperCase) : UpperCase[k] = ch]
  ELSE ch

\* (Page|Slide|Sheet), the alternatives in the order the pattern tries them
UnitWords == << <<"p", "a", "g", "e">>, <<"s", "l", "i", "d", "e">>, <<"s", "h", "e", "e", "t">> >>

\* whether word w stands in text at position i, ignoring case
WordAt(text, i, w) ==
  /\ i + Len(w) - 1 <= Len(text)
  /\ \A k \in 1..Len(w) : toLowerCase(text[i + k - 1]) = w[k]

RECURSIVE RunEnd(_, _, _)
\* first position at or after i whose character is not of the class (greedy + run)
RunEnd(text, i, digit) ==
  IF i <= Len(text) /\ (IF digit THEN IsDigit(text[i]) ELSE IsSpace(text[i]))
  THEN RunEnd(text, i + 1, digit)
  ELSE i

\* the same pattern with \s* for \s+
MatchAt_OptionalSpace(text, i) ==
  IF i > Len(text) \/ text[i] # "[" THEN [end |-> 0, digits |-> 0]
  ELSE LET ws == {k \in 1..Len(UnitWords) : WordAt(text, i + 1, UnitWords[k])}
       IN IF ws = {} THEN [end |-> 0, digits |-> 0]
          ELSE LET w == UnitWords[CHOOSE k \in ws : \A j \in ws : k <= j]
                   s0 == i + 1 + Len(w)
                   d0 == RunEnd(text, s0, FALSE)
                   d1 == RunEnd(text, d0, TRUE)
               IN IF d1 > d0 /\ d1 <= Len(text) /\ text[d1] = "]"
                  THEN [end |-> d1 + 1, digits |-> d0]
                  ELSE [end |-> 0, digits |-> 0]

\* /\[(Page|Slide|Sheet)\s+(\d+)\]/i anchored at position i: the position after
\* the match and where the digits start, or 0 when there is no match at i.
MatchAt(text, i) ==
  IF i > Len(text) \/ text[i] # "[" THEN [end |-> 0, digits |-> 0]
  ELSE LET ws == {k \in 1..Len(UnitWords) : WordAt(text, i + 1, UnitWords[k])}
       IN IF ws = {} THEN [end |-> 0, digits |-> 0]
          ELSE LET w == UnitWords[CHOOSE k \in ws : \A j \in ws : k <= j]
                   s0 == i + 1 + Len(w)
                   d0 == RunEnd(text, s0, FALSE)
                   d1 == RunEnd(text, d0, TRUE)
               IN IF d0 > s0 /\ d1 > d0 /\ d1 <= Len(text) /\ text[d1] = "]"
                  THEN [end |-> d1 + 1, digits |-> d0]
                  ELSE [end |-> 0, digits |-> 0]

RECURSIVE parseInt(_)
\* parseInt(match[2], 10) on a run of digits
parseInt(ds) ==
  IF ds = <<>> THEN 0
  ELSE 10 * parseInt(SubSeq(ds, 1, Len(ds) - 1)) + DigitValue(ds[Len(ds)])

RECURSIVE exec(_, _)
\* regex.exec(text) with the g flag: the leftmost match at or after lastIndex
exec(text, from) ==
  IF from > Len(text) THEN [index |-> 0, end |-> 0, digits |-> 0]
  ELSE LET m == MatchAt(text, from)
       IN IF m.end # 0 THEN [index |-> from, end |-> m.end, digits |-> m.digits]
          ELSE exec(text, from + 1)

TextPart(s) == [cite |-> FALSE, text |-> s, pageNum |-> 0]
\* a citation button labelled with the token's words, without its brackets
CitePart_Unbracketed(label, n) ==
  [cite |-> TRUE, text |-> SubSeq(label, 2, Len(label) - 1), pageNum |-> n]
CitePart(label, n) == [cite |-> TRUE, text |-> label, pageNum |-> n]

RECURSIVE ScanFrom(_, _, _)
\* the while loop of renderContent and the push of the trailing text; positions
\* are 1-based, lastIndex is the position of the next character to read.
ScanFrom(text, lastIndex, parts) ==
  LET match == exec(text, lastIndex)
  IN IF match.index = 0
     THEN IF lastIndex <= Len(text)
          THEN Append(parts, TextPart(SubSeq(text, lastIndex, Len(text))))
          ELSE parts
     ELSE LET before == IF match.index > lastIndex
                        THEN Append(parts, TextPart(SubSeq(text, lastIndex, match.index - 1)))
                        ELSE parts
              label == SubSeq(text, match.index, match.end - 1)
              pageNum == parseInt(SubSeq(text, match.digits, match.end - 2))
          IN ScanFrom(text, match.end, Append(before, CitePart(label, pageNum)))

\* renderContent(text). With no part it returns text itself, which is then the
\* empty string: the empty sequence either way.
renderContent(text) == ScanFrom(text, 1, <<>>)

\* Answer strings: literal text around up to MaxTokens bracket sequences,
\* well-formed and malformed.
Literals ==
  { <<>>,
    <<"S", "e", "e", " ">>,
    <<"[">> }
BracketTokens ==
  { <<"[", "P", "a", "g", "e", " ", "3", "]">>,
    <<"[", "S", "l", "i", "d", "e", " ", "1", "2", "]">>,
    <<"[", "S", "H", "E", "E", "T", " ", "\t", "0", "7", "]">>,
    <<"[", "p", "a", "g", "e", "\n", "4", "0", "]">>,
    <<"[", "P", "a", "g", "e", "3", "]">>,
    <<"[", "P", "a", "g", "e", " ", "3">>,
    <<"[", "B", "o", "o", "k", " ", "2", "]">>,
    <<"[", "S", "l", "i", "d", "e", " ", "x", "]">> }
\* "See [Page 3] and [Slide 12] for details."
ExampleText ==
  <<"S", "e", "e", " ", "[", "P", "a", "g", "e", " ", "3", "]",
    " ", "a", "n", "d", " ", "[", "S", "l", "i", "d", "e", " ", "1", "2", "]",
    " ", "f", "o", "r", " ", "d", "e", "t", "a", "i", "l", "s", ".">>

RECURSIVE AnswerTexts(_)
AnswerTexts(k) ==
  IF k = 0 THEN Literals
  ELSE LET shorter == AnswerTexts(k - 1)
       IN shorter \cup {t \o tok \o lit : t \in shorter, tok \in BracketTokens, lit \in Literals}

CiteIdle ==
  /\ citeText = <<>>
  /\ citeParts = <<>>
  /\ citePc = "off"

CiteInit ==
  /\ citeText \in AnswerTexts(MaxTokens) \cup {ExampleText}
  /\ citeParts = <<>>
  /\ citePc = "input"

\* ChatMessage renders a model message: renderContent(message.content)
RenderContent ==
  /\ citePc = "input"
  /\ citeParts' = renderContent(citeText)
  /\ citePc' = "rendered"
  /\ UNCHANGED <<citeText, nonCiteVars>>

CiteNext == RenderContent


\* ------------------------------------------------------ format classifier
FileTypes == {"pdf", "image", "excel", "powerpoint", "word", "text"}

\* file.type
PdfType == "application/pdf"
PngType == "image/png"
XlsxType == "application/vnd.openxmlformats-officedocument.spreadsheetml.sheet"
XlsType == "application/vnd.ms-excel"
PptxType == "application/vnd.openxmlformats-officedocument.presentationml.presentation"
DocxType == "application/vnd.openxmlformats-officedocument.wordprocessingml.document"
TextType == "text/plain"
MediaTypes == {PdfType, PngType, XlsxType, XlsType, PptxType, DocxType, TextType, ""}

\* type.startsWith('image/'), type.includes(...) on the media types above
StartsWithImage(type) == type = PngType
IncludesSpreadsheet(type) == type = XlsxType
IncludesPresentation(type) == type = PptxType
IncludesWordprocessing(type) == type = DocxType

\* the extension of file.name as written, and name.toLowerCase()
Extensions == {"pdf", "png", "PNG", "jpeg", "xlsx", "XLS", "pptx", "ppt", "docx", "doc", "txt", "csv"}
LowerExt(ext) == IF ext = "PNG" THEN "png" ELSE IF ext = "XLS" THEN "xls" ELSE ext
FileName(ext) == [base |-> "file", ext |-> ext]
\* name.endsWith('.' + e) after toLowerCase
NameEndsWith(name, e) == LowerExt(name.ext) = e

getFileType(file) ==
  LET type == file.type
      name == file.name
  IN IF type = PdfType THEN "pdf"
     ELSE IF StartsWithImage(type)
             \/ \E e \in {"jpg", "jpeg", "png", "bmp", "webp"} : NameEndsWith(name, e)
          THEN "image"
     ELSE IF NameEndsWith(name, "xlsx") \/ NameEndsWith(name, "xls") \/ IncludesSpreadsheet(type)
          THEN "excel"
     ELSE IF NameEndsWith(name, "pptx") \/ NameEndsWith(name, "ppt") \/ IncludesPresentation(type)
          THEN "powerpoint"
     ELSE IF NameEndsWith(name, "docx") \/ IncludesWordprocessing(type) THEN "word"
     ELSE IF type = TextType \/ NameEndsWith(name, "txt") THEN "text"
     ELSE "text"


\* -------------------------------------------------------- text extraction
\* window.pdfjsLib, window.XLSX, window.JSZip, window.mammoth, and the
\* tesseract.js worker that createWorker starts
Libraries == {"pdfjsLib", "XLSX", "JSZip", "mammoth", "tesseract"}
\* a page that loaded every script, or lost one of them
LibChoices == {Libraries} \cup {Libraries \ {l} : l \in Libraries}

\* One line of text: a unit header the extractors write (h is its unit word,
\* n the number of a Page or Slide header, s the name of a Sheet header), or
\* a line of the file's own content (h = "", s its characters).
Line(h, n, s) == [h |-> h, n |-> n, s |-> s]
PageHeader(i) == Line("Page", i, "")
SheetHeader(sheetName) == Line("Sheet", 0, sheetName)
SlideHeader(count) == Line("Slide", count, "")
DocumentHeader == Line("Document Content", 0, "")
ImageHeader == Line("Image OCR Result", 0, "")
TextHeader == Line("Text File", 0, "")
Content(str) == Line("", 0, str)
BlankLine == Content("")

\* What one unit of a file holds: nothing, prose, or prose that itself reads
\* like a header ("--- Page 2 ---" typed into the file).
UnitContents == {<<>>, <<Content("lorem")>>, <<PageHeader(2)>>}
SheetNames == <<"Sales", "Costs", "Notes", "Plan">>

\* The bytes behind a File, as the readers and decoders see them: whether
\* the browser can still read it, the units a decoder finds in it, and the
\* unit at which the decoder gives up (0 when it does not).
Bodies ==
  [readable : BOOLEAN, failAt : 0..MaxUnits, units : SeqsUpTo(UnitContents, MaxUnits)]
PlainBody == [readable |-> TRUE, failAt |-> 0, units |-> << <<Content("lorem")>> >>]
File(type, ext, body) == [type |-> type, name |-> FileName(ext), body |-> body]

\* a file of each kind as browsers report it
TypicalKinds ==
  { <<PdfType, "pdf">>, <<PngType, "png">>, <<XlsxType, "xlsx">>,
    <<PptxType, "pptx">>, <<DocxType, "docx">>, <<TextType, "txt">> }
\* a deck of three slides
ThreeSlides ==
  [readable |-> TRUE, failAt |-> 0,
   units |-> << <<Content("one")>>, <<Content("two")>>, <<Content("ten")>> >>]
Files ==
  { File(k[1], k[2], body) : k \in TypicalKinds, body \in Bodies }
    \cup { File(type, ext, PlainBody) : type \in MediaTypes, ext \in Extensions }
    \cup { File(PptxType, "pptx", ThreeSlides) }

\* values a promise can reject with
Error(message) == [kind |-> "Error", message |-> message]
\* an exception raised inside pdf.js, SheetJS, JSZip, mammoth or tesseract
LibraryError == Error("(decoder library message)")
\* file.arrayBuffer() rejecting
ReadException == [kind |-> "DOMException", message |-> "(browser read error)"]
\* FileReader's error event: an object without a message
ProgressEvent == [kind |-> "ProgressEvent", message |-> ""]
NoError == [kind |-> "none", message |-> ""]

\* how an adapter settles; read tells whether it got as far as reading the file
Return(text, pages) ==
  [ok |-> TRUE, text |-> text, pages |-> pages, error |-> NoError, read |-> TRUE]
Throw(err) == [ok |-> FALSE, text |-> <<>>, pages |-> 0, error |-> err, read |-> FALSE]
\* a rejection that comes from the read or after it
AfterRead(r) == [r EXCEPT !.read = TRUE]

RECURSIVE Flatten(_)
Flatten(units) ==
  IF units = <<>> THEN <<>> ELSE Head(units) \o Flatten(Tail(units))

\* the for loop of extractFromPDF from page i on
RECURSIVE PdfPages(_, _)
PdfPages(units, i) ==
  IF i > Len(units) THEN <<>>
  ELSE <<PageHeader(i)>> \o units[i] \o <<BlankLine, BlankLine>> \o PdfPages(units, i + 1)

extractFromPDF(file, L) ==
  IF "pdfjsLib" \notin L THEN Throw(Error("PDF Library not loaded"))
  ELSE IF ~file.body.readable THEN AfterRead(Throw(ReadException))
  ELSE IF file.body.failAt # 0 THEN AfterRead(Throw(LibraryError))
  ELSE Return(PdfPages(file.body.units, 1), Len(file.body.units))

\* workbook.SheetNames.forEach from sheet i on
RECURSIVE ExcelSheets(_, _)
ExcelSheets(units, i) ==
  IF i > Len(units) THEN <<>>
  ELSE <<SheetHeader(SheetNames[i])>> \o units[i] \o <<BlankLine, BlankLine>>
         \o ExcelSheets(units, i + 1)

extractFromExcel(file, L) ==
  IF "XLSX" \notin L THEN Throw(Error("Excel Library not loaded"))
  ELSE IF ~file.body.readable THEN AfterRead(Throw(ReadException))
  ELSE IF file.body.failAt # 0 THEN AfterRead(Throw(LibraryError))
  ELSE Return(ExcelSheets(file.body.units, 1), Len(file.body.units))

\* the numbers archive entries carry in their names
SlideNumbers == {1, 2, 10, 11}
\* the entry name 'ppt/slides/slide<num>.xml'; unit is the slide it holds
Key(num, unit) == [num |-> num, unit |-> unit]

\* Object.keys(zip.files) after the filter: the n slide entries of the
\* archive in the order the archive lists them
KeyOrders(n) ==
  {keys \in [1..n -> [num : SlideNumbers, unit : 1..n]] :
     \A i, j \in 1..n :
       (keys[i].num = keys[j].num \/ keys[i].unit = keys[j].unit) => i = j}

\* decimal digits of a number, most significant first
RECURSIVE Decimal(_)
Decimal(num) ==
  IF num < 10 THEN <<num>> ELSE Decimal(num \div 10) \o <<num % 10>>
RECURSIVE LexBefore(_, _)
LexBefore(ds, es) ==
  IF es = <<>> THEN FALSE
  ELSE IF ds = <<>> THEN TRUE
  ELSE IF Head(ds) # Head(es) THEN Head(ds) < Head(es)
  ELSE LexBefore(Tail(ds), Tail(es))

\* the comparator of a sort without a compare function: by name
SortsBefore_ByName(a, b) == LexBefore(Decimal(a.num), Decimal(b.num))
\* (a, b) => numA - numB is negative
SortsBefore(a, b) == a.num < b.num

\* slideFiles.sort((a, b) => numA - numB)
RECURSIVE InsertByNum(_, _)
InsertByNum(sorted, key) ==
  IF sorted = <<>> THEN <<key>>
  ELSE IF SortsBefore(key, Head(sorted)) THEN <<key>> \o sorted
  ELSE <<Head(sorted)>> \o InsertByNum(Tail(sorted), key)
RECURSIVE SortByNum(_)
SortByNum(slideFiles) ==
  IF slideFiles = <<>> THEN <<>>
  ELSE InsertByNum(SortByNum(SubSeq(slideFiles, 1, Len(slideFiles) - 1)),
                   slideFiles[Len(slideFiles)])

\* the a:t nodes DOMParser finds in slide k: parseFromString does not throw
\* on XML that is not well formed, it returns a parsererror document, and
\* the text nodes are lost
SlideText(body, k) == IF body.failAt = k THEN <<>> ELSE body.units[k]

\* the for..of loop of extractFromPPTX, count slides already written
RECURSIVE PptxSlides(_, _, _)
PptxSlides(body, slideFiles, count) ==
  IF slideFiles = <<>> THEN <<>>
  ELSE <<SlideHeader(count + 1)>> \o SlideText(body, Head(slideFiles).unit)
         \o <<BlankLine, BlankLine>> \o PptxSlides(body, Tail(slideFiles), count + 1)

\* failAt beyond the slides stands for an archive JSZip cannot open
extractFromPPTX(file, L, keys) ==
  IF "JSZip" \notin L THEN Throw(Error("ZIP Library not loaded for PPTX"))
  ELSE IF ~file.body.readable \/ file.body.failAt > Len(file.body.units)
       THEN AfterRead(Throw(LibraryError))
  ELSE Return(PptxSlides(file.body, SortByNum(keys), 0), Len(keys))

\* extractFromDocx counting a unit per paragraph block of the file
extractFromDocx_PerBlock(file, L) ==
  IF "mammoth" \notin L THEN Throw(Error("Word Library not loaded"))
  ELSE IF ~file.body.readable THEN AfterRead(Throw(ReadException))
  ELSE IF file.body.failAt # 0 THEN AfterRead(Throw(LibraryError))
  ELSE Return(<<DocumentHeader>> \o Flatten(file.body.units), Len(file.body.units))

extractFromDocx(file, L) ==
  IF "mammoth" \notin L THEN Throw(Error("Word Library not loaded"))
  ELSE IF ~file.body.readable THEN AfterRead(Throw(ReadException))
  ELSE IF file.body.failAt # 0 THEN AfterRead(Throw(LibraryError))
  ELSE Return(<<DocumentHeader>> \o Flatten(file.body.units), 1)

\* createWorker rejects when the worker cannot be started; recognize reads
\* the file
extractFromImage(file, L) ==
  IF "tesseract" \notin L THEN Throw(LibraryError)
  ELSE IF file.body.failAt # 0 THEN AfterRead(Throw(LibraryError))
  ELSE Return(<<ImageHeader>> \o Flatten(file.body.units), 1)

extractFromText(file) ==
  IF ~file.body.readable THEN AfterRead(Throw(ProgressEvent))
  ELSE Return(<<TextHeader>> \o Flatten(file.body.units), 1)

\* fileToBase64: "data" when the reader loads, its error event otherwise
fileToBase64(file) ==
  IF file.body.readable THEN Return(<<>>, 0) ELSE AfterRead(Throw(ProgressEvent))

NoDoc ==
  [name |-> FileName(""), text |-> <<>>, pageCount |-> 0, fileType |-> "none",
   file |-> "undefined", base64Data |-> "undefined", mimeType |-> ""]

\* JSON.stringify of a DocumentData: an undefined field is left out, and a
\* File, which has no enumerable property of its own, is written as {}
stringify(doc) ==
  LET kept == {f \in DOMAIN doc : ~(f \in {"file", "base64Data"} /\ doc[f] = "undefined")}
  IN [f \in kept |-> IF f = "file" THEN "{}" ELSE doc[f]]
\* JSON.parse of that text, read as a DocumentData: a field that is not
\* there reads as undefined
parse(json) ==
  [f \in DOMAIN NoDoc |-> IF f \in DOMAIN json THEN json[f] ELSE "undefined"]

\* a Message; 'init-1' is the id of the greeting of every session, the other
\* ids are values of Date.now()
InitId == 0
Message(id, role, text) ==
  [id |-> id, role |-> role, content |-> text, isAudioPlaying |-> "undefined"]

\* JSON.stringify and JSON.parse of a Message: isAudioPlaying is written
\* only once it has been given a value
stringifyMessage(m) ==
  [f \in {g \in DOMAIN m : ~(g = "isAudioPlaying" /\ m[g] = "undefined")} |-> m[f]]
parseMessage(json) ==
  [f \in DOMAIN Message(InitId, "model", "") |->
     IF f \in DOMAIN json THEN json[f] ELSE "undefined"]

\* the same for the list of sessions
stringifySessions(list) ==
  [i \in 1..Len(list) |->
     [list[i] EXCEPT !.documents = [j \in 1..Len(@) |-> stringify(@[j])],
                     !.messages = [j \in 1..Len(@) |-> stringifyMessage(@[j])]]]
parseSessions(json) ==
  [i \in 1..Len(json) |->
     [json[i] EXCEPT !.documents = [j \in 1..Len(@) |-> parse(@[j])],
                     !.messages = [j \in 1..Len(@) |-> parseMessage(@[j])]]]

\* the switch of extractTextFromDocument
Adapter(fileType, file, L, keys) ==
  CASE fileType = "pdf" -> extractFromPDF(file, L)
    [] fileType = "excel" -> extractFromExcel(file, L)
    [] fileType = "powerpoint" -> extractFromPPTX(file, L, keys)
    [] fileType = "word" -> extractFromDocx(file, L)
    [] fileType = "image" -> extractFromImage(file, L)
    [] fileType = "text" -> extractFromText(file)
    [] OTHER -> Throw(Error("Unsupported file type"))

\* extractTextFromDocument from the base64 read on, fileType already known;
\* the result is the DocumentData or the rejection
ExtractAs(fileType, file, L, keys) ==
  LET isImage == fileType = "image"
      b64 == fileToBase64(file)
      result == Adapter(fileType, file, L, keys)
  IN IF isImage /\ ~b64.ok
     THEN [ok |-> FALSE, doc |-> NoDoc, error |-> b64.error, read |-> TRUE]
     ELSE IF ~result.ok
     THEN [ok |-> FALSE, doc |-> NoDoc, error |-> result.error,
           read |-> isImage \/ result.read]
     ELSE [ok |-> TRUE,
           doc |-> [name |-> file.name, text |-> result.text, pageCount |-> result.pages,
                    fileType |-> fileType, file |-> "File",
                    base64Data |-> IF fileType = "image" THEN "data" ELSE "undefined",
                    mimeType |-> file.type],
           error |-> NoError,
           read |-> TRUE]

extractTextFromDocument(file, L, keys) == ExtractAs(getFileType(file), file, L, keys)

ExtractInit ==
  /\ libs \in LibChoices
  /\ exFile \in Files
  /\ exKind = "none"
  /\ exDoc = NoDoc
  /\ exError = NoError
  /\ exKeys = <<>>
  /\ exRead = FALSE
  /\ exPc = "selected"

\* no extraction under way
ExtractOff ==
  /\ exFile = File(TextType, "txt", PlainBody)
  /\ exKind = "none"
  /\ exDoc = NoDoc
  /\ exError = NoError
  /\ exKeys = <<>>
  /\ exRead = FALSE
  /\ exPc = "off"

ExtractIdle == libs = Libraries /\ ExtractOff

\* const fileType = getFileType(file)
Classify ==
  /\ exPc = "selected"
  /\ exKind' = getFileType(exFile)
  /\ exPc' = "classified"
  /\ UNCHANGED <<libs, exFile, exDoc, exError, exKeys, exRead, nonExtractVars>>

\* extractTextFromDocument settles with r: the record is returned or the
\* rejection reaches the caller
Settle(r, keys) ==
  /\ exDoc' = r.doc
  /\ exError' = r.error
  /\ exKeys' = IF r.ok THEN keys ELSE <<>>
  /\ exRead' = r.read
  /\ exPc' = IF r.ok THEN "done" ELSE "failed"
  /\ UNCHANGED <<libs, exFile, exKind, nonExtractVars>>

ExtractPDF ==
  /\ exPc = "classified"
  /\ exKind = "pdf"
  /\ Settle(ExtractAs("pdf", exFile, libs, <<>>), <<>>)

ExtractExcel ==
  /\ exPc = "classified"
  /\ exKind = "excel"
  /\ Settle(ExtractAs("excel", exFile, libs, <<>>), <<>>)

ExtractPPTX ==
  /\ exPc = "classified"
  /\ exKind = "powerpoint"
  /\ \E keys \in KeyOrders(Len(exFile.body.units)) :
       Settle(ExtractAs("powerpoint", exFile, libs, keys), keys)

ExtractDocx ==
  /\ exPc = "classified"
  /\ exKind = "word"
  /\ Settle(ExtractAs("word", exFile, libs, <<>>), <<>>)

ExtractImage ==
  /\ exPc = "classified"
  /\ exKind = "image"
  /\ Settle(ExtractAs("image", exFile, libs, <<>>), <<>>)

ExtractText ==
  /\ exPc = "classified"
  /\ exKind = "text"
  /\ Settle(ExtractAs("text", exFile, libs, <<>>), <<>>)

ExtractNext ==
  \/ Classify
  \/ ExtractPDF
  \/ ExtractExcel
  \/ ExtractPPTX
  \/ ExtractDocx
  \/ ExtractImage
  \/ ExtractText


\* ------------------------------------------------------------ batch upload
UnreadableBody == [readable |-> FALSE, failAt |-> 0, units |-> << <<Content("lorem")>> >>]
MalformedBody == [readable |-> TRUE, failAt |-> 1, units |-> << <<Content("lorem")>> >>]

\* files the user picks: a sound one of each kind, a text file the browser
\* can no longer read, and a PDF the decoder rejects
PickableFiles ==
  { File(k[1], k[2], PlainBody) : k \in TypicalKinds }
    \cup {File(TextType, "txt", UnreadableBody), File(PdfType, "pdf", MalformedBody)}

UploadInit ==
  /\ appState = "UPLOAD"
  /\ sessions = <<>>
  /\ currentSessionId = 0
  /\ selectedFiles = <<>>
  /\ isProcessing = FALSE
  /\ error = "null"
  /\ batch = <<>>
  /\ results = <<>>
  /\ awaiting = 0
  /\ storage = <<>>
  /\ pending = <<>>
  /\ clock = 0

UploadIdle == UploadInit

\* no question asked, no playback asked for
NoRequest == [sid |-> 0, updatedMessages |-> <<>>, contents |-> <<>>]
NoMessage == [sid |-> 0, mid |-> 0 - 1]
ChatIdle ==
  /\ isLoading = FALSE
  /\ request = NoRequest
  /\ callMsg = [c \in Calls |-> NoMessage]
  /\ synth = {}

\* handleFileSelect / handleDrop with one file
SelectFile ==
  /\ pending = <<>>
  /\ appState = "UPLOAD"
  /\ Len(selectedFiles) < MaxFiles
  /\ \E file \in PickableFiles : selectedFiles' = Append(selectedFiles, file)
  /\ UNCHANGED <<appState, sessions, currentSessionId, isProcessing, error, batch, results,
                 awaiting, storage, pending, clock, nonUploadVars>>

RemoveAt(seq, index) ==
  SubSeq(seq, 1, index - 1) \o SubSeq(seq, index + 1, Len(seq))

\* removeFile(index); the button is rendered only while not processing
RemoveFile ==
  /\ pending = <<>>
  /\ appState = "UPLOAD"
  /\ ~isProcessing
  /\ \E index \in 1..Len(selectedFiles) : selectedFiles' = RemoveAt(selectedFiles, index)
  /\ UNCHANGED <<appState, sessions, currentSessionId, isProcessing, error, batch, results,
                 awaiting, storage, pending, clock, nonUploadVars>>

\* startAnalysis up to its first await
StartAnalysis ==
  /\ pending = <<>>
  /\ appState = "UPLOAD"
  /\ ~isProcessing
  /\ Len(selectedFiles) # 0
  /\ isProcessing' = TRUE
  /\ error' = "null"
  /\ batch' = selectedFiles
  /\ results' = <<>>
  /\ awaiting' = 1
  /\ UNCHANGED <<appState, sessions, currentSessionId, selectedFiles, storage, pending, clock,
                 nonUploadVars>>

\* a key order for the archive of a slide deck (the only adapter that has one)
SomeKeyOrder(file) == [i \in 1..Len(file.body.units) |-> Key(i, i)]
Extracted(file) == extractTextFromDocument(file, libs, SomeKeyOrder(file))

\* the promise of a file before the last resolves: push, next iteration
ExtractionResolves ==
  /\ isProcessing
  /\ awaiting \in 1..(Len(batch) - 1)
  /\ Extracted(batch[awaiting]).ok
  /\ results' = Append(results, Extracted(batch[awaiting]).doc)
  /\ awaiting' = awaiting + 1
  /\ UNCHANGED <<appState, sessions, currentSessionId, selectedFiles, isProcessing, error,
                 batch, storage, pending, clock, nonUploadVars>>

\* setSessions and the effect that saves the sessions whenever they change
setSessions(list) ==
  /\ sessions' = list
  /\ storage' = stringifySessions(list)

\* Date.now() is read for an id
Tick ==
  /\ clock < MaxClock
  /\ clock' = clock + 1

handleUploadComplete(docs) ==
  LET newId == clock + 1
      newSession == [id |-> newId, documents |-> docs,
                     messages |-> <<Message(InitId, "model", "analyzed")>>]
  IN /\ Tick
     /\ setSessions(<<newSession>> \o sessions)
     /\ currentSessionId' = newId
     /\ appState' = "CHAT"

\* the promise of the last file resolves: push, onUploadComplete, finally
BatchCompletes ==
  /\ isProcessing
  /\ awaiting = Len(batch)
  /\ awaiting # 0
  /\ Extracted(batch[awaiting]).ok
  /\ results' = Append(results, Extracted(batch[awaiting]).doc)
  /\ handleUploadComplete(results')
  /\ isProcessing' = FALSE
  /\ awaiting' = 0
  /\ UNCHANGED <<selectedFiles, error, batch, pending, nonUploadVars>>

\* err.message || 'Failed to process files.'
ErrorText(err) == IF err.message # "" THEN err.message ELSE "Failed to process files."

\* the promise of any file rejects: catch, finally
ExtractionRejects ==
  /\ isProcessing
  /\ awaiting \in 1..Len(batch)
  /\ ~Extracted(batch[awaiting]).ok
  /\ error' = ErrorText(Extracted(batch[awaiting]).error)
  /\ isProcessing' = FALSE
  /\ awaiting' = 0
  /\ UNCHANGED <<appState, sessions, currentSessionId, selectedFiles, batch, results,
                 storage, pending, clock, nonUploadVars>>

\* the page goes away: the AudioContext, its sources and the utterances of
\* the page, and the play() calls in progress, are gone with their callbacks
unload(S) ==
  [S EXCEPT !.audioContext = "null",
            !.currentSource = 0,
            !.speechQueue = <<>>,
            !.callPc = [c \in Calls |-> IF @[c] = "awaitResume" THEN "unloaded" ELSE @[c]],
            !.srcState = [c \in Calls |-> IF @[c] \in {"playing", "stopped"}
                                          THEN "unloaded" ELSE @[c]],
            !.uttState = [c \in Calls |-> IF @[c] \in {"queued", "cancelled"}
                                          THEN "unloaded" ELSE @[c]]]

\* the page is loaded again: every component starts from its initial state;
\* in the first render's effects the mount effect reads the saved sessions
\* and calls the setters, and the save effect writes the sessions of this
\* render, which are none
Reload ==
  /\ LET parsed == parseSessions(storage)
     IN pending' = IF Len(parsed) > 0 THEN parsed ELSE <<>>
  /\ appState' = "UPLOAD"
  /\ currentSessionId' = 0
  /\ setSessions(<<>>)
  /\ selectedFiles' = <<>>
  /\ isProcessing' = FALSE
  /\ error' = "null"
  /\ batch' = <<>>
  /\ results' = <<>>
  /\ awaiting' = 0
  /\ isLoading' = FALSE
  /\ request' = NoRequest
  /\ synth' = {}
  /\ SetAudioState(unload(AudioState))
  /\ UNCHANGED <<clock, callMsg, audioCtxAvail, stopCalled, nonAppVars>>

\* the render the mount effect asked for: setSessions(parsed),
\* setCurrentSessionId(parsed[0].id), setAppState(CHAT), and the save effect
RestoreCommits ==
  /\ pending # <<>>
  /\ setSessions(pending)
  /\ currentSessionId' = pending[1].id
  /\ appState' = "CHAT"
  /\ pending' = <<>>
  /\ UNCHANGED <<clock, fileUploadVars, audioVars, chatVars, nonAppVars>>

UploadNext ==
  \/ Reload
  \/ RestoreCommits
  \/ SelectFile
  \/ RemoveFile
  \/ StartAnalysis
  \/ ExtractionResolves
  \/ BatchCompletes
  \/ ExtractionRejects

\* ------------------------------------------------------------------- chat
\* what the user types into the input box
Questions == {"what is lorem?"}

\* the documents of an upload, as FileUpload hands them to onUploadComplete
UploadedDocs ==
  <<ExtractAs("text", File(TextType, "txt", PlainBody), Libraries, <<>>).doc>>

\* sessions.find(s => s.id === id): the place of the first such session, 0
\* when there is none
find(list, id) ==
  IF \E i \in 1..Len(list) : list[i].id = id
  THEN CHOOSE i \in 1..Len(list) :
         list[i].id = id /\ \A j \in 1..(i - 1) : list[j].id # id
  ELSE 0

\* prev.map(s => s.id === id ? { ...s, messages } : s)
withMessages(list, id, messages) ==
  [i \in 1..Len(list) |->
     IF list[i].id = id THEN [list[i] EXCEPT !.messages = messages] ELSE list[i]]

\* updatedMessages.map(m => ({ role: m.role, parts: [{ text: m.content }] }))
history(messages) ==
  [i \in 1..Len(messages) |-> [role |-> messages[i].role, text |-> messages[i].content]]

\* the contents generateAnswer sends to the model
contents(chatHistory, question) ==
  chatHistory \o <<[role |-> "user", text |-> question]>>

\* FileUpload finishes a batch and calls onUploadComplete
UploadCompletes ==
  /\ pending = <<>>
  /\ appState = "UPLOAD"
  /\ handleUploadComplete(UploadedDocs)
  /\ UNCHANGED <<pending, fileUploadVars, audioVars, chatVars, nonAppVars>>

\* the New Analysis button, and BACK in the chat header
NewAnalysis ==
  /\ pending = <<>>
  /\ appState = "CHAT"
  /\ appState' = "UPLOAD"
  /\ UNCHANGED <<sessions, currentSessionId, storage, pending, clock, fileUploadVars,
                 audioVars, chatVars, nonAppVars>>

\* Back to Chat, shown on the upload screen when there are sessions
BackToChat ==
  /\ pending = <<>>
  /\ appState = "UPLOAD"
  /\ Len(sessions) > 0
  /\ appState' = "CHAT"
  /\ UNCHANGED <<sessions, currentSessionId, storage, pending, clock, fileUploadVars,
                 audioVars, chatVars, nonAppVars>>

\* a session of the Recent list is clicked
SwitchSession ==
  /\ pending = <<>>
  /\ \E i \in 1..Len(sessions) :
       /\ currentSessionId' = sessions[i].id
       /\ appState' = "CHAT"
  /\ UNCHANGED <<sessions, storage, pending, clock, fileUploadVars, audioVars, chatVars,
                 nonAppVars>>

\* the bin button of a session of the Recent list
DeleteSession ==
  /\ pending = <<>>
  /\ \E i \in 1..Len(sessions) :
       LET Kept(sess) == sess.id # sessions[i].id
       IN setSessions(SelectSeq(sessions, Kept))
  /\ UNCHANGED <<appState, currentSessionId, pending, clock, fileUploadVars, audioVars,
                 chatVars, nonAppVars>>

\* handleSendMessage up to its await
SendMessage ==
  /\ pending = <<>>
  /\ appState = "CHAT"
  /\ ~isLoading
  /\ LET current == find(sessions, currentSessionId)
     IN /\ current # 0
        /\ Len(sessions[current].documents) # 0
        /\ \E inputText \in Questions :
             LET userMsg == Message(clock + 1, "user", inputText)
                 updatedMessages == Append(sessions[current].messages, userMsg)
             IN /\ Tick
                /\ setSessions(withMessages(sessions, currentSessionId, updatedMessages))
                /\ isLoading' = TRUE
                /\ request' = [sid |-> currentSessionId,
                               updatedMessages |-> updatedMessages,
                               contents |-> contents(history(updatedMessages), inputText)]
  /\ UNCHANGED <<appState, currentSessionId, pending, fileUploadVars, audioVars, callMsg,
                 synth, nonAppVars>>

\* the session id the continuation of handleSendMessage compares with: the
\* currentSessionId of the render the call was made in
ReplySession_Live(captured, live) == live
ReplySession(captured, live) == captured

\* the transcript the catch block writes
catchMessages_Silent(updatedMessages, errorMsg) == updatedMessages
catchMessages(updatedMessages, errorMsg) == Append(updatedMessages, errorMsg)

\* the continuation of handleSendMessage writes the transcript; finally
Settles(messages) ==
  /\ setSessions(withMessages(sessions, ReplySession(request.sid, currentSessionId),
                              messages))
  /\ clock' = clock + 1
  /\ isLoading' = FALSE
  /\ request' = NoRequest
  /\ UNCHANGED <<appState, currentSessionId, pending, fileUploadVars, audioVars, callMsg,
                 synth, nonAppVars>>

\* generateAnswer resolves
AnswerArrives ==
  /\ request # NoRequest
  /\ Settles(Append(request.updatedMessages, Message(clock + 1, "model", "answer")))

\* generateAnswer rejects
ReasoningFails ==
  /\ request # NoRequest
  /\ Settles(catchMessages(request.updatedMessages,
                           Message(clock + 1, "model", "An error occurred during reasoning.")))

ChatNext ==
  \/ UploadCompletes
  \/ NewAnalysis
  \/ BackToChat
  \/ SwitchSession
  \/ DeleteSession
  \/ SendMessage
  \/ AnswerArrives
  \/ ReasoningFails
  \/ Reload
  \/ RestoreCommits


\* ---------------------------------------------------------- audio actions
\* onAudioStart(id) of a render in which session sid is current: in that
\* session the message with the id is flagged, the others are not
onAudioStart(list, sid, id) ==
  [i \in 1..Len(list) |->
     IF list[i].id = sid
     THEN [list[i] EXCEPT !.messages =
             [j \in 1..Len(@) |->
                [list[i].messages[j] EXCEPT !.isAudioPlaying =
                   IF list[i].messages[j].id = id THEN "true" ELSE "false"]]]
     ELSE list[i]]

\* onAudioEnd of renders in which the sessions sids were current: no message
\* of those sessions is flagged
onAudioEnd(list, sids) ==
  [i \in 1..Len(list) |->
     IF list[i].id \in sids
     THEN [list[i] EXCEPT !.messages =
             [j \in 1..Len(@) |-> [list[i].messages[j] EXCEPT !.isAudioPlaying = "false"]]]
     ELSE list[i]]

\* the calls whose onEnded the service invoked between S and S2; the onEnded
\* of a ChatMessage is () => onAudioEnd(message.id)
Signalled(S, S2) ==
  {c \in Calls : S2.cbCount[c] > S.cbCount[c] /\ callMsg[c] # NoMessage}

\* the service moves to S2, and the onEnded callbacks it invokes run
AudioEvent(S2) ==
  /\ SetAudioState(S2)
  /\ IF Signalled(AudioState, S2) = {}
     THEN UNCHANGED <<sessions, storage>>
     ELSE setSessions(onAudioEnd(sessions, {callMsg[c].sid : c \in Signalled(AudioState, S2)}))

AudioInit ==
  /\ audioCtxAvail \in BOOLEAN
  /\ audioContext = "null"
  /\ currentSource = 0
  /\ nextCall = 0
  /\ callOpts = [c \in Calls |-> NoOptions]
  /\ callPc = [c \in Calls |-> "idle"]
  /\ callPath = [c \in Calls |-> "none"]
  /\ srcState = [c \in Calls |-> "none"]
  /\ speechQueue = <<>>
  /\ uttState = [c \in Calls |-> "none"]
  /\ cbCount = [c \in Calls |-> 0]
  /\ cbLate = [c \in Calls |-> 0]
  /\ stopCalled = FALSE

Play ==
  /\ nextCall < MaxCalls
  /\ \E opts \in PlayOptions, newCtxState \in {"suspended", "running"} :
       SetAudioState(play(AudioState, nextCall + 1, opts, audioCtxAvail, newCtxState))
  /\ UNCHANGED <<audioCtxAvail, stopCalled, nonAudioVars>>

Stop ==
  /\ SetAudioState(stop(AudioState))
  /\ stopCalled' = TRUE
  /\ UNCHANGED <<audioCtxAvail, nonAudioVars>>

ResumeSettles ==
  /\ \E c \in Calls : callPc[c] = "awaitResume"
  /\ AudioEvent(ResumeAll([AudioState EXCEPT !.audioContext = "running"], 1))
  /\ UNCHANGED <<audioCtxAvail, stopCalled, nonPlaybackVars>>

SourceEnded ==
  \E c \in Calls :
    /\ srcState[c] \in {"playing", "stopped"}
    /\ AudioEvent(onended(AudioState, c))
    /\ UNCHANGED <<audioCtxAvail, stopCalled, nonPlaybackVars>>

UtteranceEnd ==
  /\ speechQueue # <<>>
  /\ LET c == Head(speechQueue)
     IN AudioEvent(InvokeOnEnded([AudioState EXCEPT !.speechQueue = Tail(@),
                                                       !.uttState[c] = "finished"], c))
  /\ UNCHANGED <<audioCtxAvail, stopCalled, nonPlaybackVars>>

UtteranceError ==
  /\ speechQueue # <<>>
  /\ LET c == Head(speechQueue)
     IN AudioEvent(InvokeOnEnded([AudioState EXCEPT !.speechQueue = Tail(@),
                                                       !.uttState[c] = "failed"], c))
  /\ UNCHANGED <<audioCtxAvail, stopCalled, nonPlaybackVars>>

UtteranceCancelled ==
  \E c \in Calls :
    /\ uttState[c] = "cancelled"
    /\ AudioEvent(InvokeOnEnded([AudioState EXCEPT !.uttState[c] = "failed"], c))
    /\ UNCHANGED <<audioCtxAvail, stopCalled, nonPlaybackVars>>

AudioNext ==
  \/ Play
  \/ Stop
  \/ ResumeSettles
  \/ SourceEnded
  \/ UtteranceEnd
  \/ UtteranceError
  \/ UtteranceCancelled

AudioIdle ==
  /\ audioCtxAvail = TRUE
  /\ audioContext = "null"
  /\ currentSource = 0
  /\ nextCall = 0
  /\ callOpts = [c \in Calls |-> NoOptions]
  /\ callPc = [c \in Calls |-> "idle"]
  /\ callPath = [c \in Calls |-> "none"]
  /\ srcState = [c \in Calls |-> "none"]
  /\ speechQueue = <<>>
  /\ uttState = [c \in Calls |-> "none"]
  /\ cbCount = [c \in Calls |-> 0]
  /\ cbLate = [c \in Calls |-> 0]
  /\ stopCalled = FALSE



\* --------------------------------------------------------------- playback
\* the current session and the place of one of its model messages, whose
\* Read Aloud button is on screen
Playable(i, j) ==
  /\ pending = <<>>
  /\ appState = "CHAT"
  /\ i = find(sessions, currentSessionId)
  /\ i # 0
  /\ j \in 1..Len(sessions[i].messages)
  /\ sessions[i].messages[j].role = "model"

\* handlePlayAudio on a message that is flagged as playing
StopClick ==
  /\ \E i \in 1..Len(sessions) : \E j \in 1..Len(sessions[i].messages) :
       /\ Playable(i, j)
       /\ sessions[i].messages[j].isAudioPlaying = "true"
  /\ SetAudioState(stop(AudioState))
  /\ stopCalled' = TRUE
  /\ setSessions(onAudioEnd(sessions, {currentSessionId}))
  /\ UNCHANGED <<audioCtxAvail, nonPlaybackVars>>

\* handlePlayAudio from onAudioStart on, with what generateSpeech gave
StartPlayback(sid, id, base64Audio) ==
  \E newCtxState \in {"suspended", "running"} :
    LET c == nextCall + 1
        S2 == play(AudioState, c, [b64 |-> base64Audio, text |-> TRUE], audioCtxAvail,
                   newCtxState)
        started == onAudioStart(sessions, sid, id)
    IN /\ SetAudioState(S2)
       /\ callMsg' = [callMsg EXCEPT ![c] = [sid |-> sid, mid |-> id]]
       /\ setSessions(IF S2.callPc[c] = "rejected" THEN onAudioEnd(started, {sid})
                      ELSE started)

\* handlePlayAudio on a message that is not flagged, offline or without an
\* API key: no speech is generated
PlayClick ==
  /\ nextCall + Cardinality(synth) < MaxCalls
  /\ \E i \in 1..Len(sessions) : \E j \in 1..Len(sessions[i].messages) :
       /\ Playable(i, j)
       /\ sessions[i].messages[j].isAudioPlaying # "true"
       /\ StartPlayback(currentSessionId, sessions[i].messages[j].id, "none")
  /\ UNCHANGED <<audioCtxAvail, stopCalled, appState, currentSessionId, pending, clock,
                 fileUploadVars, isLoading, request, synth, nonAppVars>>

\* the same online and with an API key, up to await generateSpeech
PlayClickOnline ==
  /\ nextCall + Cardinality(synth) < MaxCalls
  /\ \E i \in 1..Len(sessions) : \E j \in 1..Len(sessions[i].messages) :
       /\ Playable(i, j)
       /\ sessions[i].messages[j].isAudioPlaying # "true"
       /\ synth' = synth \cup {[sid |-> currentSessionId, mid |-> sessions[i].messages[j].id]}
  /\ UNCHANGED <<audioVars, uploadVars, isLoading, request, callMsg, nonAppVars>>

\* generateSpeech settles, with audio or with null
SpeechArrives ==
  /\ \E waiting \in synth, base64Audio \in Base64Kinds :
       /\ synth' = synth \ {waiting}
       /\ StartPlayback(waiting.sid, waiting.mid, base64Audio)
  /\ UNCHANGED <<audioCtxAvail, stopCalled, appState, currentSessionId, pending, clock,
                 fileUploadVars, isLoading, request, nonAppVars>>

\* two sessions, the newer one with a question answered
PlaybackSessions ==
  << [id |-> 2, documents |-> UploadedDocs,
      messages |-> <<Message(InitId, "model", "analyzed"),
                     Message(3, "user", "what is lorem?"),
                     Message(4, "model", "answer")>>],
     [id |-> 1, documents |-> UploadedDocs,
      messages |-> <<Message(InitId, "model", "analyzed")>>] >>

PlaybackInit ==
  /\ appState = "CHAT"
  /\ sessions = PlaybackSessions
  /\ currentSessionId = 2
  /\ selectedFiles = <<>>
  /\ isProcessing = FALSE
  /\ error = "null"
  /\ batch = <<>>
  /\ results = <<>>
  /\ awaiting = 0
  /\ storage = stringifySessions(PlaybackSessions)
  /\ pending = <<>>
  /\ clock = 4

PlaybackNext ==
  \/ PlayClick
  \/ PlayClickOnline
  \/ SpeechArrives
  \/ StopClick
  \/ ResumeSettles
  \/ SourceEnded
  \/ UtteranceEnd
  \/ UtteranceError
  \/ UtteranceCancelled
  \/ SwitchSession
  \/ Reload
  \/ RestoreCommits

\* --------------------------------------------------------- document viewer
NoPage == 0 - 1
NoNavigation == [kind |-> "none", page |-> NoPage]

\* a five-page PDF, each page with a line of text
FivePages ==
  [readable |-> TRUE, failAt |-> 0, units |-> [i \in 1..5 |-> <<Content("lorem")>>]]

\* the records extraction produces from sound files: as first delivered
\* (file present), without the original file, and as read back from storage
ViewableDocs ==
  LET sound == {f \in Files : <<f.type, f.name.ext>> \in TypicalKinds
                                /\ f.body.readable /\ f.body.failAt = 0}
                 \cup {File(PdfType, "pdf", FivePages)}
      fresh == {extractTextFromDocument(f, Libraries, SomeKeyOrder(f)).doc : f \in sound}
  IN fresh \cup {[d EXCEPT !.file = "undefined"] : d \in fresh}
           \cup {parse(stringify(d)) : d \in fresh}

\* the branch of loadContent that renders doc
ViewKind(doc) ==
  IF doc.file = "undefined" THEN "fallbackText"
  ELSE IF doc.file = "{}" /\ doc.fileType \in {"pdf", "image", "word", "excel"}
       THEN "errorView"
  ELSE IF doc.fileType = "pdf" THEN "pdfFrame"
  ELSE IF doc.fileType = "image" THEN "image"
  ELSE IF doc.fileType = "word" THEN "wordHtml"
  ELSE IF doc.fileType = "excel" THEN "excelHtml"
  ELSE "text"

\* the branches of loadContent that await before they render
AwaitsBeforeRender(doc) == ViewKind(doc) \in {"wordHtml", "excelHtml"}
\* the views whose root carries containerRef
HasContainerRef(view) == view \in {"fallbackText", "text", "wordHtml"}

\* renderTextWithAnchors: the N of every id="doc-page-N" it renders
AnchorIds(text) ==
  {text[i].n : i \in {j \in 1..Len(text) : text[j].h \in {"Page", "Slide"}}}

\* the ids present in the rendered view
RenderedIds(view, doc) ==
  IF view \in {"fallbackText", "text"} THEN AnchorIds(doc.text) ELSE {}

Truthy(page) == page # NoPage /\ page # 0

\* the scrolling effect, run against what is rendered when the click lands
ScrollEffect(doc, view, page) ==
  IF Truthy(page) /\ doc.fileType = "pdf" THEN NoNavigation
  ELSE IF Truthy(page) /\ HasContainerRef(view) /\ page \in RenderedIds(view, doc)
       THEN [kind |-> "scrollIntoView", page |-> page]
  ELSE NoNavigation

\* PdfFrame: the iframe is remounted on the new src
PdfFrame(page) ==
  [kind |-> "iframe", page |-> IF Truthy(page) THEN page ELSE NoPage]

\* the viewer mounted on a document, its first loadContent run up to the
\* render or to the first await
ViewerInit ==
  /\ documentData \in ViewableDocs
  /\ scrollToPage = NoPage
  /\ content = IF AwaitsBeforeRender(documentData) THEN "null" ELSE ViewKind(documentData)
  /\ loading = AwaitsBeforeRender(documentData)
  /\ navigation = NoNavigation

ViewerIdle ==
  /\ documentData = NoDoc
  /\ scrollToPage = NoPage
  /\ content = "null"
  /\ loading = FALSE
  /\ navigation = NoNavigation

\* onPageClick(pageNum) of a citation button: setActivePageToScroll, then the
\* two effects that depend on scrollToPage
PageClick ==
  \E page \in 0..MaxPage :
    /\ page # scrollToPage
    /\ scrollToPage' = page
    /\ IF ViewKind(documentData) = "pdfFrame"
       THEN /\ navigation' = PdfFrame(page)
            /\ UNCHANGED <<content, loading>>
       ELSE /\ navigation' = ScrollEffect(documentData, content, page)
            /\ IF AwaitsBeforeRender(documentData)
               THEN content' = "null" /\ loading' = TRUE
               ELSE UNCHANGED <<content, loading>>
    /\ UNCHANGED <<documentData, nonViewerVars>>

\* loadContent resumes after its awaits and renders
ContentLoads ==
  /\ loading
  /\ content' = ViewKind(documentData)
  /\ loading' = FALSE
  /\ UNCHANGED <<documentData, scrollToPage, navigation, nonViewerVars>>

ViewerNext ==
  \/ PageClick
  \/ ContentLoads

\* ------------------------------------------------------ audio properties
\* A playback is active while its buffer source plays or while the speech
\* queue holds an utterance.
PlayingSources == {c \in Calls : srcState[c] = "playing"}
ActivePlaybacks == Cardinality(PlayingSources) + (IF speechQueue # <<>> THEN 1 ELSE 0)

\* Call c has run to its end: play() returned or threw, its playback is over
\* and no event of it is still to be dispatched.
Settled(c) ==
  /\ callPc[c] \in {"returned", "rejected"}
  /\ srcState[c] \notin {"playing", "stopped"}
  /\ uttState[c] \notin {"queued", "cancelled"}

\* C2: in every reachable state at most one playback (buffer source or speech
\* utterance) is active, whatever the interleaving of play() and stop().
C2_AtMostOnePlayback == ActivePlaybacks <= 1

\* C3: when play() is called twice in succession, the first call having a
\* playback of its own, there is exactly one active playback once the second
\* call has started its own, the second call's onEnded is invoked exactly once
\* (never twice, and once when its playback is over), and the first call's
\* onEnded is never invoked after the second call superseded it.
TwoPlaysInSuccession ==
  /\ nextCall = 2
  /\ ~stopCalled
  /\ callPath[1] \in {"pcm", "speech"}
C3_SupersededNeverSignalled ==
  TwoPlaysInSuccession =>
    /\ cbLate[1] = 0
    /\ (callPc[2] = "returned" /\ ~Settled(2)) => ActivePlaybacks = 1
    /\ cbCount[2] <= 1
    /\ Settled(2) => cbCount[2] = 1

\* C9: a play() call that no later play() superseded has its onEnded invoked
\* exactly once: never twice, and once by the time the call has run to its end.
C9_OnEndedExactlyOnce ==
  \A c \in Calls :
    nextCall = c =>
      /\ cbCount[c] <= 1
      /\ Settled(c) => cbCount[c] = 1

\* C10: play() plays the PCM buffer when given bytes that decode, falls back to
\* speech synthesis of the text when given no bytes or when decoding or buffer
\* playback setup fails, and with neither completes immediately and plays nothing.
PcmUsable(c) == callOpts[c].b64 = "good" /\ audioCtxAvail
C10_OutputPathChoice ==
  \A c \in Calls :
    callPc[c] \in {"returned", "rejected"} =>
      /\ PcmUsable(c) => callPath[c] = "pcm"
      /\ (~PcmUsable(c) /\ callOpts[c].text) => callPath[c] = "speech"
      /\ (~PcmUsable(c) /\ ~callOpts[c].text) =>
           /\ callPath[c] = "immediate"
           /\ cbCount[c] >= 1
           /\ srcState[c] = "none"
           /\ uttState[c] = "none"

\* C14: stop() called when nothing is playing leaves nothing playing; after
\* any stop() the service holds no source and no utterance; a second stop()
\* changes nothing that the first left; and a source that was stopped or an
\* utterance that was cancelled never plays again.
C14_StopIdempotent ==
  /\ [](stop(stop(AudioState)) = stop(AudioState))
  /\ [][Stop => /\ currentSource' = 0
                /\ speechQueue' = <<>>
                /\ (ActivePlaybacks = 0 => ActivePlaybacks' = 0)]_vars
  /\ [][\A c \in Calls :
          /\ srcState[c] \in {"stopped", "ended"} => srcState'[c] \in {"stopped", "ended"}
          /\ uttState[c] \in {"cancelled", "failed", "finished"}
               => uttState'[c] \in {"cancelled", "failed", "finished"}]_vars

\* stop() has stopped a playing source and a later play() is under way
C14_Witness ==
  /\ stopCalled
  /\ currentSource = 0
  /\ \E c \in Calls : srcState[c] = "stopped" /\ nextCall > c

\* C21: a call of play() given a malformed PCM payload, or made where no
\* AudioContext can be constructed, returns normally, having taken the
\* speech fallback or signalled completion at once.
C21_PlayAbsorbsFailures ==
  \A c \in Calls :
    ( /\ callPc[c] \notin {"idle", "awaitResume"}
      /\ (callOpts[c].b64 = "bad" \/ ~audioCtxAvail) ) =>
      /\ callPc[c] = "returned"
      /\ callPath[c] \in {"speech", "immediate"}

\* ---------------------------------------------------- decoder properties
\* What C8 says of a decoded payload of 2*N bytes: a buffer of exactly
\* N samples, each the 16-bit little-endian integer over 32768 and within
\* [-1, 1]; an all-zero payload gives an all-zero buffer.
DecodedAsClaimed ==
  /\ decPc = "buffer"
  /\ Len(decSamples) * 2 = Len(decBytes)
  /\ \A i \in 1..Len(decSamples) :
       /\ decSamples[i].den = 32768
       /\ LET lo == decBytes[2 * i - 1]
              hi == decBytes[2 * i]
          IN decSamples[i].num = (IF hi >= 128 THEN hi - 256 ELSE hi) * 256 + lo
       /\ -decSamples[i].den <= decSamples[i].num
       /\ decSamples[i].num <= decSamples[i].den
  /\ (\A k \in 1..Len(decBytes) : decBytes[k] = 0) =>
       \A i \in 1..Len(decSamples) : decSamples[i].num = 0

\* C8: every payload of 2*N bytes decodes to a buffer as described above,
\* N = 0 included.
C8_EveryEvenPayloadDecodes ==
  (decPc \in {"buffer", "decodeThrew"} /\ Len(decBytes) % 2 = 0) => DecodedAsClaimed

\* C8, amended: the same for N >= 1 (an empty payload makes createBuffer throw).
C8_NonEmptyEvenPayloadDecodes ==
  (decPc \in {"buffer", "decodeThrew"} /\ Len(decBytes) % 2 = 0 /\ Len(decBytes) >= 2)
    => DecodedAsClaimed

\* Two samples decoded, the first the most negative one.
C8_Witness ==
  /\ decPc = "buffer"
  /\ Len(decSamples) = 2
  /\ decSamples[1].num = -32768
  /\ decSamples[2].num > 0

\* ---------------------------------------------------------- specifications
InitAudio ==
  AudioInit /\ DecodeIdle /\ CiteIdle /\ ExtractIdle /\ UploadIdle /\ ViewerIdle /\ ChatIdle
SpecAudio == InitAudio /\ [][AudioNext]_vars

InitDecode ==
  DecodeInit /\ AudioIdle /\ CiteIdle /\ ExtractIdle /\ UploadIdle /\ ViewerIdle /\ ChatIdle
SpecDecode == InitDecode /\ [][DecodeNext]_vars

InitCite ==
  CiteInit /\ AudioIdle /\ DecodeIdle /\ ExtractIdle /\ UploadIdle /\ ViewerIdle /\ ChatIdle
SpecCite == InitCite /\ [][CiteNext]_vars

InitExtract ==
  ExtractInit /\ AudioIdle /\ DecodeIdle /\ CiteIdle /\ UploadIdle /\ ViewerIdle /\ ChatIdle
SpecExtract == InitExtract /\ [][ExtractNext]_vars

InitUpload ==
  /\ UploadInit
  /\ libs \in LibChoices
  /\ ExtractOff
  /\ AudioIdle /\ DecodeIdle /\ CiteIdle /\ ViewerIdle /\ ChatIdle
SpecUpload == InitUpload /\ [][UploadNext]_vars

InitChat ==
  /\ UploadInit /\ ChatIdle
  /\ AudioIdle /\ DecodeIdle /\ CiteIdle /\ ExtractIdle /\ ViewerIdle
SpecChat == InitChat /\ [][ChatNext]_vars
InitPlayback ==
  /\ PlaybackInit /\ AudioInit /\ ChatIdle
  /\ DecodeIdle /\ CiteIdle /\ ExtractIdle /\ ViewerIdle
SpecPlayback == InitPlayback /\ [][PlaybackNext]_vars

\* the promise of generateAnswer settles
SpecChatLive == SpecChat /\ WF_vars(AnswerArrives \/ ReasoningFails)

InitViewer ==
  ViewerInit /\ AudioIdle /\ DecodeIdle /\ CiteIdle /\ ExtractIdle /\ UploadIdle /\ ChatIdle
SpecViewer == InitViewer /\ [][ViewerNext]_vars

\* ---------------------------------------------------- extraction properties
\* the kind a media type names on its own, "none" when it names no kind
MediaTypeKind(type) ==
  IF type = PdfType THEN "pdf"
  ELSE IF StartsWithImage(type) THEN "image"
  ELSE IF IncludesSpreadsheet(type) THEN "excel"
  ELSE IF IncludesPresentation(type) THEN "powerpoint"
  ELSE IF IncludesWordprocessing(type) THEN "word"
  ELSE IF type = TextType THEN "text"
  ELSE "none"

\* the kind a file extension names on its own, letter case ignored
ExtensionKind(name) ==
  LET e == LowerExt(name.ext)
  IN IF e \in {"jpg", "jpeg", "png", "bmp", "webp"} THEN "image"
     ELSE IF e \in {"xlsx", "xls"} THEN "excel"
     ELSE IF e \in {"pptx", "ppt"} THEN "powerpoint"
     ELSE IF e = "docx" THEN "word"
     ELSE IF e = "txt" THEN "text"
     ELSE "none"

MediaTypeFirst(file) ==
  IF MediaTypeKind(file.type) # "none" THEN MediaTypeKind(file.type)
  ELSE IF ExtensionKind(file.name) # "none" THEN ExtensionKind(file.name)
  ELSE "text"

\* C7: getFileType returns one of the six kinds for every (media type, name)
\* pair, and that kind is the one the media type names when it names one, the
\* one the case-insensitive extension names only when the media type names
\* none, and plain text when neither names a kind.
C7_MediaTypeBeforeExtension ==
  exPc \in {"classified", "done", "failed"} =>
    /\ exKind \in FileTypes
    /\ exKind = MediaTypeFirst(exFile)

IsHeader(line) == line.h # ""
Headers(text) == SelectSeq(text, IsHeader)
\* the unit index a header carries: its number for a page or a slide, its
\* place among the headers for the kinds whose header has no number
UnitIndex(hdrs, k) == IF hdrs[k].h \in {"Page", "Slide"} THEN hdrs[k].n ELSE k

\* C1: every document record extractTextFromDocument returns has as many unit
\* headers in its text as its pageCount, and their unit indices are 1, 2, ..,
\* pageCount in document order, none repeated or skipped.
C1_HeadersMatchPageCount ==
  exPc = "done" =>
    LET hdrs == Headers(exDoc.text)
    IN /\ Len(hdrs) = exDoc.pageCount
       /\ \A k \in 1..Len(hdrs) : UnitIndex(hdrs, k) = k


\* where unit k starts in a text whose units are a header, lens[m] lines of
\* content and two blank lines each
RECURSIVE UnitStart(_, _)
UnitStart(lens, k) == IF k = 1 THEN 1 ELSE UnitStart(lens, k - 1) + 3 + lens[k - 1]

\* C11: the slides of a deck are emitted in ascending order of the number in
\* their entry names, compared as numbers, whatever order the archive lists
\* them in, and the emitted units are numbered 1, 2, 3, .. in that order.
C11_SlidesInNumericOrder ==
  (exPc = "done" /\ exKind = "powerpoint") =>
    LET n == Len(exKeys)
        rank(i) == Cardinality({j \in 1..n : exKeys[j].num < exKeys[i].num}) + 1
        kth(k) == exKeys[CHOOSE i \in 1..n : rank(i) = k]
        slide(k) == SlideText(exFile.body, kth(k).unit)
        lens == [k \in 1..n |-> Len(slide(k))]
    IN /\ exDoc.pageCount = n
       /\ Len(exDoc.text) = UnitStart(lens, n + 1) - 1
       /\ \A k \in 1..n :
            LET at == UnitStart(lens, k)
            IN /\ exDoc.text[at] = SlideHeader(k)
               /\ SubSeq(exDoc.text, at + 1, at + lens[k]) = slide(k)

\* slide2.xml, slide10.xml, slide1.xml found in that order and emitted as
\* units 1, 2, 3 = slide1, slide2, slide10
C11_Witness ==
  /\ exPc = "done"
  /\ exFile.body = ThreeSlides
  /\ exKeys = <<Key(2, 2), Key(10, 3), Key(1, 1)>>
  /\ exDoc.text = <<SlideHeader(1), Content("one"), BlankLine, BlankLine,
                    SlideHeader(2), Content("two"), BlankLine, BlankLine,
                    SlideHeader(3), Content("ten"), BlankLine, BlankLine>>


\* the header each single-unit kind writes
SingleUnitHeader(kind) ==
  IF kind = "word" THEN DocumentHeader
  ELSE IF kind = "image" THEN ImageHeader
  ELSE TextHeader

\* C12: a record of kind word, image or text has pageCount 1, and its text is
\* the one unit header of its kind followed by the content of the file.
C12_SingleUnitKinds ==
  (exPc = "done" /\ exKind \in {"word", "image", "text"}) =>
    /\ exDoc.pageCount = 1
    /\ exDoc.text # <<>>
    /\ Head(exDoc.text) = SingleUnitHeader(exKind)
    /\ Tail(exDoc.text) = Flatten(exFile.body.units)

\* a Word file of two blocks extracted into one unit
C12_Witness ==
  /\ exPc = "done"
  /\ exKind = "word"
  /\ Len(exFile.body.units) = 2
  /\ exDoc.pageCount = 1
  /\ exDoc.text = <<DocumentHeader, Content("lorem"), Content("lorem")>>

\* C16: for an image the visual payload (base64 bytes and media type) is
\* produced and delivered whether or not OCR succeeds: when the file can be
\* read and OCR fails, the record still comes back carrying the payload.
C16_PayloadSurvivesOcrFailure ==
  ( /\ exPc \in {"done", "failed"}
    /\ exKind = "image"
    /\ exFile.body.readable
    /\ (exFile.body.failAt # 0 \/ "tesseract" \notin libs) ) =>
    /\ exDoc.base64Data = "data"
    /\ exDoc.mimeType = exFile.type

\* -------------------------------------------------------- upload properties
\* the first file of the batch, in order, whose extraction rejects (0: none)
FirstFailure ==
  LET failing == {i \in 1..Len(batch) : ~Extracted(batch[i]).ok}
  IN IF failing = {} THEN 0 ELSE CHOOSE i \in failing : \A j \in failing : i <= j

\* the format kind an error text names; a decoder library's own message is
\* taken to name the kind of the decoder that raised it
KindNamedBy(text, file) ==
  IF text = "PDF Library not loaded" THEN "pdf"
  ELSE IF text = "Excel Library not loaded" THEN "excel"
  ELSE IF text = "ZIP Library not loaded for PPTX" THEN "powerpoint"
  ELSE IF text = "Word Library not loaded" THEN "word"
  ELSE IF text = LibraryError.message THEN getFileType(file)
  ELSE "none"

BatchFailed == Len(batch) > 1 /\ ~isProcessing /\ error # "null"

\* C6: when the extraction of one file of a multi-file upload fails, no
\* session is created from the batch, the error shown is the one of the first
\* file that failed, and that error names the failing file's format kind.
C6_BatchFailsWithKindOfFirstFailure ==
  BatchFailed =>
    /\ sessions = <<>>
    /\ FirstFailure # 0
    /\ error = ErrorText(Extracted(batch[FirstFailure]).error)
    /\ KindNamedBy(error, batch[FirstFailure]) = getFileType(batch[FirstFailure])

\* C18: when a unit of a paged file (PDF page, workbook sheet, slide) cannot
\* be decoded, the extraction fails and returns no document record.
C18_NoPartialSuccess ==
  ( /\ exPc \in {"done", "failed"}
    /\ exKind \in {"pdf", "excel", "powerpoint"}
    /\ exFile.body.failAt \in 1..Len(exFile.body.units) ) =>
    /\ exPc = "failed"
    /\ exDoc = NoDoc

\* the decoder each kind of file needs
Capability(fileType) ==
  CASE fileType = "pdf" -> "pdfjsLib"
    [] fileType = "excel" -> "XLSX"
    [] fileType = "powerpoint" -> "JSZip"
    [] fileType = "word" -> "mammoth"
    [] fileType = "image" -> "tesseract"
    [] OTHER -> "none"

\* the messages that say which decoder is missing
CapabilityMessages ==
  {"PDF Library not loaded", "Excel Library not loaded",
   "ZIP Library not loaded for PPTX", "Word Library not loaded"}

\* C19: when the decoder a file's kind needs is not available, the extraction
\* fails with an error that names the cause, no byte of the file has been
\* read, and no document record is returned.
C19_MissingCapabilityFailsFirst ==
  ( /\ exPc \in {"done", "failed"}
    /\ Capability(exKind) \in Libraries \ libs ) =>
    /\ exPc = "failed"
    /\ exDoc = NoDoc
    /\ exError.message \in CapabilityMessages
    /\ ~exRead

\* C20: when the unit count an adapter returns differs from the number of
\* unit headers in the text it returns, no document record is constructed.
C20_MiscountFailsConstruction ==
  ( /\ exPc \in {"done", "failed"}
    /\ LET result == Adapter(exKind, exFile, libs, exKeys)
       IN result.ok /\ Len(Headers(result.text)) # result.pages ) =>
    /\ exPc = "failed"
    /\ exDoc = NoDoc

\* C17: what is written to storage holds no file handle, and every document
\* of a session read back from storage has no file, so that the viewer shows
\* it in the extracted-text view.
C17_ReloadedFilesAbsent ==
  /\ \A i \in 1..Len(storage) : \A j \in 1..Len(storage[i].documents) :
       LET written == storage[i].documents[j]
       IN "file" \in DOMAIN written => written.file # "File"
  /\ \A i \in 1..Len(sessions) : \A j \in 1..Len(sessions[i].documents) :
       LET doc == sessions[i].documents[j]
       IN doc.file # "File" => /\ doc.file = "undefined"
                               /\ ViewKind(doc) = "fallbackText"

\* -------------------------------------------------------- viewer properties
Clicked == scrollToPage # NoPage /\ ~loading

\* C5: a page click whose index lies outside 1..pageCount ends in an explicit
\* resolution error and no navigation; a click inside 1..pageCount navigates
\* to that unit (with pageCount = 5: 0 and 6 fail, 5 succeeds).
C5_OutOfRangeIsAnError ==
  Clicked =>
    IF scrollToPage \in 1..documentData.pageCount
    THEN navigation.kind \in {"iframe", "scrollIntoView"} /\ navigation.page = scrollToPage
    ELSE navigation.kind = "error"

\* C15: with the original file absent, a click on a citation whose number is
\* within 1..pageCount scrolls the extracted-text view to that unit, for a
\* document of any kind.
C15_NoDeadLinkWithoutFile ==
  (Clicked /\ documentData.file = "undefined"
     /\ scrollToPage \in 1..documentData.pageCount) =>
    navigation = [kind |-> "scrollIntoView", page |-> scrollToPage]

\* ------------------------------------------------- citation scan properties
RECURSIVE ConcatParts(_)
ConcatParts(parts) ==
  IF parts = <<>> THEN <<>> ELSE Head(parts).text \o ConcatParts(Tail(parts))

\* The token shape [Page N], [Slide N], [Sheet N], stated on its own: a bracket,
\* a unit word in any case, white space, digits, a bracket.
SameLetter(ch, lower) ==
  \/ ch = lower
  \/ <<ch, lower>> \in {<<"A", "a">>, <<"D", "d">>, <<"E", "e">>, <<"G", "g">>, <<"H", "h">>,
                        <<"I", "i">>, <<"L", "l">>, <<"P", "p">>, <<"S", "s">>, <<"T", "t">>}
IsUnitWord(s) ==
  \E w \in {<<"p", "a", "g", "e">>, <<"s", "l", "i", "d", "e">>, <<"s", "h", "e", "e", "t">>} :
    /\ Len(s) = Len(w)
    /\ \A k \in 1..Len(w) : SameLetter(s[k], w[k])
IsCitationToken(s) ==
  /\ Len(s) >= 4
  /\ s[1] = "["
  /\ s[Len(s)] = "]"
  /\ \E a \in 2..Len(s), b \in 2..Len(s) :
       /\ a < b /\ b < Len(s) - 1
       /\ IsUnitWord(SubSeq(s, 2, a))
       /\ \A k \in (a + 1)..b : s[k] \in {" ", "\t", "\n"}
       /\ \A k \in (b + 1)..(Len(s) - 1) : s[k] \in {"0", "1", "2", "3", "4", "5", "6", "7", "8", "9"}
\* the digits of a token, last character before the closing bracket backwards
RECURSIVE TokenNumber(_, _)
TokenNumber(s, k) ==
  IF s[k] \in {" ", "\t", "\n"} THEN 0
  ELSE 10 * TokenNumber(s, k - 1)
       + (CHOOSE v \in 0..9 : <<"0", "1", "2", "3", "4", "5", "6", "7", "8", "9">>[v + 1] = s[k])
ContainsToken(s) ==
  \E i \in 1..Len(s), j \in 1..Len(s) : i < j /\ IsCitationToken(SubSeq(s, i, j))

\* C4: the scan emits, in order of appearance, one citation per token of the
\* shape [Page N], [Slide N], [Sheet N] (unit word in any case) with the
\* integer N as its unit index, leaves no token inside a text span, and keeps
\* the text before, between and after the tokens verbatim; the example string
\* gives citations 3 and 12 around "See ", " and ", " for details.".
C4_CitationScan ==
  citePc = "rendered" =>
    /\ ConcatParts(citeParts) = citeText
    /\ \A k \in 1..Len(citeParts) :
         IF citeParts[k].cite
         THEN /\ IsCitationToken(citeParts[k].text)
              /\ citeParts[k].pageNum = TokenNumber(citeParts[k].text, Len(citeParts[k].text) - 1)
         ELSE /\ citeParts[k].text # <<>>
              /\ ~ContainsToken(citeParts[k].text)
    /\ \A k \in 1..(Len(citeParts) - 1) : citeParts[k].cite \/ citeParts[k + 1].cite
    /\ citeText = ExampleText =>
         citeParts = << TextPart(<<"S", "e", "e", " ">>),
                        CitePart(<<"[", "P", "a", "g", "e", " ", "3", "]">>, 3),
                        TextPart(<<" ", "a", "n", "d", " ">>),
                        CitePart(<<"[", "S", "l", "i", "d", "e", " ", "1", "2", "]">>, 12),
                        TextPart(<<" ", "f", "o", "r", " ", "d", "e", "t", "a", "i", "l", "s", ".">>) >>

\* The example string has been scanned into its two citations and three literals.
C4_Witness ==
  /\ citePc = "rendered"
  /\ citeText = ExampleText
  /\ Len(citeParts) = 5
  /\ citeParts[2].cite /\ citeParts[2].pageNum = 3
  /\ citeParts[4].cite /\ citeParts[4].pageNum = 12

\* C13: an answer string with no citation token comes back unchanged, as one
\* span that is no citation (the empty string as itself, with no span).
C13_NoTokenUnchanged ==
  (citePc = "rendered" /\ ~ContainsToken(citeText)) =>
    citeParts = IF citeText = <<>> THEN <<>> ELSE <<TextPart(citeText)>>

\* a string with brackets but no token, scanned into one text span
C13_Witness ==
  /\ citePc = "rendered"
  /\ ~ContainsToken(citeText)
  /\ \E i \in 1..Len(citeText) : citeText[i] = "["
  /\ citeParts = <<TextPart(citeText)>>

\* C22: the spans the scan emits, text spans and citation labels, put end to
\* end in the order emitted, are the answer string, character for character.
C22_SpansRebuildAnswer ==
  citePc = "rendered" =>
    /\ ConcatParts(citeParts) = citeText
    /\ \A k \in 0..Len(citeParts) :
         ConcatParts(SubSeq(citeParts, 1, k))
           = SubSeq(citeText, 1, Len(ConcatParts(SubSeq(citeParts, 1, k))))

\* a string scanned into text, citation, citation, text
C22_Witness ==
  /\ citePc = "rendered"
  /\ Len(citeParts) >= 4
  /\ \E k \in 1..(Len(citeParts) - 1) : citeParts[k].cite /\ citeParts[k + 1].cite
  /\ ~citeParts[1].cite
  /\ ~citeParts[Len(citeParts)].cite

\* ---------------------------------------------------------- chat properties
\* C25: in the CHAT state the current session id is the id of a session of
\* the list.
C25_CurrentSessionExists ==
  appState = "CHAT" => find(sessions, currentSessionId) # 0

\* the session with this id, before and after a step, gained one model
\* message at the end of its transcript and kept its documents
GainedReply(before, after) ==
  /\ after.id = before.id
  /\ after.documents = before.documents
  /\ Len(after.messages) = Len(before.messages) + 1
  /\ SubSeq(after.messages, 1, Len(before.messages)) = before.messages
  /\ after.messages[Len(after.messages)].role = "model"

Asked(k) ==
  \E i \in 1..Len(sessions) : \E j \in 1..Len(sessions[i].messages) :
    sessions[i].messages[j].id = k /\ sessions[i].messages[j].role = "user"

\* the question with this id is followed by one model message, and by no
\* second one
Answered(k) ==
  \E i \in 1..Len(sessions) : \E j \in 1..(Len(sessions[i].messages) - 1) :
    LET messages == sessions[i].messages
    IN /\ messages[j].id = k /\ messages[j].role = "user"
       /\ messages[j + 1].role = "model"
       /\ j + 2 <= Len(messages) => messages[j + 2].role = "user"

\* C27, as stated: every question accepted is in the end followed, in its
\* session's transcript, by exactly one model message, and isLoading is in
\* the end false again.
C27_EveryQuestionAnswered ==
  /\ \A k \in 1..MaxClock : (Asked(k) ~> (Answered(k) \/ ~Asked(k)))
  /\ isLoading ~> ~isLoading

\* C27, as it holds: when the reasoning engine settles, with an answer or
\* with an error, the session the question was asked in, if it is still in
\* the list, has exactly one model message after the question; a request
\* settles or is dropped by a reload of the page, and isLoading is false
\* from then on; no question is accepted while isLoading is true.
C27_SettledQuestionAnswered ==
  /\ [][(AnswerArrives \/ ReasoningFails) =>
          /\ ~isLoading'
          /\ request' = NoRequest
          /\ \A i \in 1..Len(sessions) :
               sessions[i].id = request.sid =>
                 /\ GainedReply(sessions[i], sessions'[i])
                 /\ \E k \in 1..MaxClock :
                      /\ k = request.updatedMessages[Len(request.updatedMessages)].id
                      /\ Asked(k)' /\ Answered(k)']_vars
  /\ [](isLoading <=> request # NoRequest)
  /\ (request # NoRequest) ~> (request = NoRequest)
  /\ [][SendMessage => ~isLoading]_vars

\* a question has been answered with the error text
C27_Witness ==
  /\ ~isLoading
  /\ \E i \in 1..Len(sessions) : \E j \in 2..Len(sessions[i].messages) :
       /\ sessions[i].messages[j].content = "An error occurred during reasoning."
       /\ sessions[i].messages[j - 1].role = "user"
       /\ Answered(sessions[i].messages[j - 1].id)

\* C28: the request for a question holds the messages that were in the
\* transcript before it, once each and in order, and then the question, once.
C28_RequestHoldsHistoryThenQuestion ==
  request # NoRequest =>
    LET asked == Len(request.updatedMessages)
        earlier == SubSeq(request.updatedMessages, 1, asked - 1)
        question == request.updatedMessages[asked]
    IN request.contents = history(earlier) \o <<[role |-> "user", text |-> question.content]>>

\* what of a session a reload is to keep
Kept(list) ==
  [i \in 1..Len(list) |->
     [id |-> list[i].id,
      messages |-> list[i].messages,
      documents |-> [j \in 1..Len(list[i].documents) |->
                       [f \in {"name", "text", "pageCount", "fileType"} |->
                          list[i].documents[j][f]]]]]

\* C30: a reload restores the sessions with their ids, order, transcripts
\* and, per document, name, text, pageCount and fileType; the first of them
\* becomes current and the app shows the chat; and the write of the save
\* effect on mount leaves no fewer sessions in storage than were stored.
C30_PersistRestoreRoundTrip ==
  /\ [][Reload => Kept(pending') = Kept(sessions)]_vars
  /\ [][RestoreCommits =>
          /\ sessions' = pending
          /\ currentSessionId' = sessions'[1].id
          /\ appState' = "CHAT"]_vars
  /\ [][Reload => Len(storage') >= Len(storage)]_vars

\* ------------------------------------------------------ playback properties
\* the playback of a call is under way
PlaybackActive(c) ==
  \/ callPc[c] = "awaitResume"
  \/ srcState[c] = "playing"
  \/ uttState[c] = "queued"

\* the messages flagged isAudioPlaying, by session id and message id
Flagged ==
  UNION { { [sid |-> sessions[i].id, mid |-> sessions[i].messages[j].id] :
              j \in {k \in 1..Len(sessions[i].messages) :
                       sessions[i].messages[k].isAudioPlaying = "true"} } :
          i \in 1..Len(sessions) }

\* the end callback of a cancelled utterance of call c is still to come
CallbackPending(c) == uttState[c] = "cancelled"

\* C23: a message is flagged isAudioPlaying only while a playback started
\* for it is under way (or its end callback is still to be delivered).
C23_FlagMeansPlayback ==
  \A message \in Flagged :
    \E c \in Calls :
      callMsg[c] = message /\ (PlaybackActive(c) \/ CallbackPending(c))

\* C24: once the callback of a superseded playback has come in late, the
\* message of the latest play() call is still flagged while its playback is
\* under way.
C24_LateCallbackKeepsFlag ==
  \A c \in Calls :
    ( /\ c = nextCall
      /\ callMsg[c] # NoMessage
      /\ PlaybackActive(c)
      /\ \E a \in 1..(c - 1) : cbLate[a] > 0 ) =>
      callMsg[c] \in Flagged

\* C29: at most one message of all sessions is flagged isAudioPlaying
\* (a message whose end callback is still to be delivered is not counted).
C29_OneFlagAtMost ==
  Cardinality({message \in Flagged :
                 ~\E c \in Calls : callMsg[c] = message /\ CallbackPending(c)}) <= 1

====
